---- MODULE Spec2Model ----
(***************************************************************************)
(* Metadata service of the dataset registry                                *)
(* (src/src/services/metadataService.ts).                                  *)
(*                                                                         *)
(* Every inbound request is an independent task that runs synchronously    *)
(* up to its next `await` of a Metadata Store / Blob Store call.  One      *)
(* action of this module is: the awaited store call takes effect, and the  *)
(* handler runs on to its next await or to its response.  Requests         *)
(* interleave at these points only.                                        *)
(***************************************************************************)
EXTENDS Integers, Sequences, FiniteSets, TLC

VARIABLES datasets, chunks, files, authors, blobs, nextId, faults, req

vars == <<datasets, chunks, files, authors, blobs, nextId, faults, req>>

(***************************************************************************)
(* Bounds of the model.                                                    *)
(***************************************************************************)
\* Number of requests that are served (concurrently, in any interleaving).
NumReq == 2
\* Number of Store / Blob Store calls that may fail (return false or throw).
MaxFaults == 1

\* Number of times one delete request may be re-run from the top.
MaxReruns == 1

Slots == 1..NumReq

(***************************************************************************)
(* Values.  Undefined is JavaScript's undefined (an absent parameter).     *)
(* "0xA" and "0xa" abbreviate one 42-character 0x-prefixed address written *)
(* with upper-case and lower-case hex digits, "0xb" a second address, and  *)
(* "b" a string that is not 42 characters long.                            *)
(***************************************************************************)
Undefined == "undefined"
Owners == {"0xa", "0xb"}
RawAddrs == {"0xA", "0xb"}

toLowerCase(a) == IF a = "0xA" THEN "0xa" ELSE a

\* address.length != 42 || address.substring(0, 2) != "0x"
AddressMalformed(a) == a \notin {"0xA", "0xa", "0xb"}

\* JavaScript truthiness of the values used as parameters.
Falsy(v) == v = Undefined \/ v = ""

\* sanitize-html returns "" for an absent input; the parameters drawn here
\* carry no markup, so text passes unchanged.
sanitizeHtml(v) == IF v = Undefined THEN "" ELSE v

\* authors / keywords: req.body.x?.split(",")?.map(sanitizeHtml); the comma
\* separated string is held as the sequence of its parts.
\* Absent is the value undefined where a list is expected.
Absent == <<Undefined>>
splitMap(v) == IF v = Absent THEN Absent ELSE [k \in DOMAIN v |-> sanitizeHtml(v[k])]

\* parseInt of the estuaryId query parameter: the leading digits decide.
NaN == -1
parseInt(str) ==
  CASE str = "1" -> 1
    [] str = "1x" -> 1
    [] str = "2" -> 2
    [] str = "3" -> 3
    [] str = "7" -> 7
    [] OTHER -> NaN

\* new mongodb.ObjectId(str) throws unless str is a well-formed id.
DatasetIds == {"d1", "d2"}
ObjectIdThrows(str) == str \notin DatasetIds

(***************************************************************************)
(* Signatures.  A signature is the pair of its signer and the message      *)
(* signed; recovery over another message yields an unrelated address.      *)
(***************************************************************************)
Sign(signer, msg) == [signer |-> signer, msg |-> msg]

\* The value undefined where a signature is expected.
NoSignature == [signer |-> Undefined, msg |-> <<>>]

RecoverSigner(msg, signature) ==
  IF signature \in [signer : Owners, msg : {msg}] THEN signature.signer ELSE "0x0"

assertSignerIsAddress(msg, signature, address) ==
  toLowerCase(RecoverSigner(msg, signature)) = toLowerCase(address)

(***************************************************************************)
(* The Metadata Store: four collections of documents, and the Blob Store.  *)
(* Query results come in insertion order, which the sequences below fix.   *)
(***************************************************************************)
DatasetOrder == <<"d1", "d2">>
ChunkOrder == <<"c1", "c2", "c3">>
FileOrder == <<"f1", "f2", "f3", "f4">>

\* A Dataset document.
Dataset(id, uploader, chunkIds, published, title, description, authorIds, keywords) ==
  [_id |-> id, uploader |-> uploader, chunkIds |-> chunkIds, published |-> published,
   title |-> title, description |-> description, authors |-> authorIds,
   keywords |-> keywords]

\* A Chunk document.
Chunk(id, datasetId, fileIds, estuaryId) ==
  [_id |-> id, datasetId |-> datasetId, fileIds |-> fileIds,
   storageIds |-> [estuaryId |-> estuaryId]]

\* A File document.
File(id, chunkId) == [_id |-> id, chunkId |-> chunkId]

\* The records the upload workflow (outside this service) has created: d1 of
\* 0xa, unpublished, two chunks packed into blobs 1 and 3; d2 of 0xb, one
\* chunk in blob 2, published earlier by its owner with author record 1.
InitDatasets ==
  [id \in DatasetIds |->
     IF id = "d1"
       THEN Dataset("d1", "0xa", <<"c1", "c2">>, FALSE, "", "", <<>>, <<>>)
       ELSE Dataset("d2", "0xb", <<"c3">>, TRUE, "T0", "D0", <<1>>, <<"k0">>)]

InitChunks ==
  [id \in {"c1", "c2", "c3"} |->
     CASE id = "c1" -> Chunk("c1", "d1", <<"f1", "f2">>, 1)
       [] id = "c2" -> Chunk("c2", "d1", <<"f3">>, 3)
       [] OTHER -> Chunk("c3", "d2", <<"f4">>, 2)]

InitFiles ==
  [id \in {"f1", "f2", "f3", "f4"} |->
     File(id, CASE id \in {"f1", "f2"} -> "c1" [] id = "f3" -> "c2" [] OTHER -> "c3")]

InitAuthors == {[_id |-> 1, name |-> "Carol"]}

Range(seq) == {seq[k] : k \in DOMAIN seq}

\* The documents of a collection (a function from id to document) with the
\* given ids, in that order.
Docs(coll, ids) == [k \in DOMAIN ids |-> coll[ids[k]]]

\* The collection without the documents of the given ids.
Without(coll, gone) == [id \in DOMAIN coll \ gone |-> coll[id]]

\* Exact match on every field the filter names ({field: value}).
FieldsMatch(doc, q) == \A k \in DOMAIN q : k \in DOMAIN doc /\ doc[k] = q[k]

\* The text index of a dataset: title, description and keywords.
TextMatch(doc, str) ==
  \/ doc.title = str
  \/ doc.description = str
  \/ (doc.keywords # Absent /\ str \in Range(doc.keywords))

\* dbWrapper.getDatasets(query), query = exact-match fields, optionally with
\* a $text search; the matching documents in insertion order.
getDatasets(q) ==
  Docs(datasets,
       SelectSeq(DatasetOrder,
                 LAMBDA id : /\ id \in DOMAIN datasets
                             /\ FieldsMatch(datasets[id], [k \in DOMAIN q \ {"$text"} |-> q[k]])
                             /\ ("$text" \in DOMAIN q => TextMatch(datasets[id], q["$text"]))))

\* dbWrapper.getChunks({datasetId: id})
getChunksByDatasetId(id) ==
  Docs(chunks, SelectSeq(ChunkOrder,
                         LAMBDA c : c \in DOMAIN chunks /\ chunks[c].datasetId = id))

\* dbWrapper.getChunks({_id: {$in: ids}})
getChunksIn(ids) ==
  Docs(chunks, SelectSeq(ChunkOrder, LAMBDA c : c \in DOMAIN chunks /\ c \in Range(ids)))

\* dbWrapper.getChunks({"storageIds.estuaryId": estuaryId})
getChunksByEstuaryId(estuaryId) ==
  Docs(chunks, SelectSeq(ChunkOrder,
                         LAMBDA c : /\ c \in DOMAIN chunks
                                    /\ chunks[c].storageIds.estuaryId = estuaryId))

\* dbWrapper.getCommonsFiles({_id: {$in: ids}})
getCommonsFiles(ids) ==
  Docs(files, SelectSeq(FileOrder, LAMBDA f : f \in DOMAIN files /\ f \in Range(ids)))

\* dbWrapper.getAuthors({_id: {$in: ids}}), in insertion (id) order.
getAuthors(ids) ==
  LET hit == {a \in authors : a._id \in Range(ids)}
      order == SelectSeq([k \in 1..nextId |-> k], LAMBDA n : \E a \in hit : a._id = n)
  IN [k \in DOMAIN order |-> CHOOSE a \in hit : a._id = order[k]]

\* dbWrapper.insertAuthor(author): the collection with the record added.
insertAuthor(author) == authors \cup {author}

\* dbWrapper.updateDataset(query, {$set: patch}): the first matching dataset
\* gets every field of the patch in one write; no match changes nothing.
updateDatasetMatched(q) == Len(getDatasets(q)) > 0

updateDataset(q, patch) ==
  IF updateDatasetMatched(q)
    THEN LET id == getDatasets(q)[1]._id
         IN [datasets EXCEPT ![id] =
               [k \in DOMAIN @ |-> IF k \in DOMAIN patch THEN patch[k] ELSE @[k]]]
    ELSE datasets

\* dbWrapper.deleteCommonsFiles({chunkId: {$in: ids}})
deleteCommonsFiles(ids) ==
  Without(files, {f \in DOMAIN files : files[f].chunkId \in Range(ids)})

\* dbWrapper.deleteChunks({_id: {$in: ids}})
deleteChunks(ids) == Without(chunks, Range(ids))

\* dbWrapper.deleteDataset({_id: id})
deleteDataset(id) == Without(datasets, {id})

\* estuaryWrapper.deleteFile(estuaryId, retries): the blob is gone afterwards.
deleteFile(estuaryId) == blobs \ {estuaryId}

\* How a Store / Blob Store call may end: normally, or (while the fault
\* budget lasts) by returning false or by throwing a StoreError.
WriteOutcomes == {"ok"} \cup (IF faults < MaxFaults THEN {"false", "throw"} ELSE {})
ReadOutcomes == {"ok"} \cup (IF faults < MaxFaults THEN {"throw"} ELSE {})
Spend(outcome) == IF outcome = "ok" THEN faults ELSE faults + 1

(***************************************************************************)
(* Requests.  A slot holds one request: the handler (kind), where it is    *)
(* suspended (pc), its parameters (q), the handler's local variables       *)
(* (loc), its response (res) and the Store / Blob Store calls it has made  *)
(* so far (ops, kept for the properties only).                             *)
(***************************************************************************)
NoParams ==
  [address |-> Undefined, signature |-> NoSignature, id |-> Undefined,
   title |-> Undefined, description |-> Undefined, authors |-> Absent,
   keywords |-> Absent]

\* The value of the local `dataset` before it is assigned.
NoDataset == Dataset(Undefined, Undefined, <<>>, FALSE, "", "", <<>>, <<>>)

NoLocals ==
  [address |-> Undefined, authorIds |-> <<>>, idx |-> 0, i |-> 0,
   estuaryId |-> NaN, datasetId |-> Undefined, dataset |-> NoDataset,
   chunkIds |-> <<>>, fileIds |-> <<>>, fileIdToEstuaryId |-> <<>>]

NoResponse == [status |-> 0, error |-> "", data |-> <<>>]

Idle ==
  [kind |-> "none", pc |-> "idle", q |-> NoParams, loc |-> NoLocals,
   res |-> NoResponse, ops |-> <<>>]

\* res.status(code).json({error: message})
Error(code, message) == [status |-> code, error |-> message, data |-> <<>>]

\* res.status(200).json(data)
Ok(data) == [status |-> 200, error |-> "", data |-> data]

\* An exception that leaves the handler: no response is written.
Unhandled == [status |-> 0, error |-> "unhandled rejection", data |-> <<>>]

Call(op, outcome) == [op |-> op, outcome |-> outcome]

\* A slot takes a request only after the slots before it (the slots are
\* interchangeable).
CanBegin(s) == req[s].pc = "idle" /\ \A t \in Slots : t < s => req[t].pc # "idle"

\* The request of slot s returns res.
Respond(s, res, call) ==
  [req EXCEPT ![s].pc = "done", ![s].res = res, ![s].ops = Append(@, call)]

Init ==
  /\ datasets = InitDatasets
  /\ chunks = InitChunks
  /\ files = InitFiles
  /\ authors = InitAuthors
  /\ blobs = {1, 2, 3}
  /\ nextId = 1
  /\ faults = 0
  /\ req = [s \in Slots |-> Idle]

(***************************************************************************)
(* publishDataset                                                          *)
(***************************************************************************)
\* The request bodies drawn: two complete bodies that differ in every
\* metadata field, and each with one parameter left out.
Metadata ==
  { [title |-> "T1", description |-> "D1", authors |-> <<"Alice", "Bob">>,
     keywords |-> <<"k1", "k2">>],
    [title |-> "T2", description |-> "D2", authors |-> <<"Bob">>,
     keywords |-> <<"k2">>] }

PublishMessage(address, datasetId) == <<address, datasetId>>

PublishBodies ==
  LET full ==
        { [address |-> a, signature |-> Sign(k, PublishMessage(a, m)), id |-> d,
           title |-> md.title, description |-> md.description,
           authors |-> md.authors, keywords |-> md.keywords] :
            a \in RawAddrs, k \in Owners, d \in DatasetIds, m \in DatasetIds,
            md \in Metadata }
      base == CHOOSE b \in full :
                /\ b.address = "0xA" /\ b.id = "d1" /\ b.title = "T1"
                /\ b.signature = Sign("0xa", PublishMessage("0xA", "d1"))
  IN full
       \cup { [base EXCEPT ![f] = Undefined] :
                f \in {"address", "id", "title", "description"} }
       \cup { [base EXCEPT !.signature = NoSignature] }
       \cup { [base EXCEPT ![f] = Absent] : f \in {"authors", "keywords"} }
       \cup { [base EXCEPT !.id = "zz", !.signature = Sign("0xa", PublishMessage("0xA", "zz"))] }

\* Lines 137-147: the sanitized parameters.
PublishParams(body) ==
  [address |-> sanitizeHtml(IF body.address = Undefined THEN Undefined
                            ELSE toLowerCase(body.address)),
   signature |-> body.signature,
   datasetId |-> sanitizeHtml(body.id),
   title |-> sanitizeHtml(body.title),
   description |-> sanitizeHtml(body.description),
   authorsStrArr |-> splitMap(body.authors),
   keywords |-> splitMap(body.keywords)]

\* Lines 148-155: a required parameter is missing.
PublishMissing(p) ==
  \/ Falsy(p.address)
  \/ p.signature = NoSignature
  \/ Falsy(p.datasetId)
  \/ Falsy(p.title)
  \/ Falsy(p.description)
  \/ p.authorsStrArr = Absent

\* Lines 168-169: the signature check.
PublishAuthSuccess(body, p) ==
  assertSignerIsAddress(PublishMessage(body.address, p.datasetId), p.signature, p.address)

\* One ObjectId shared by all the authors of the request.
NewAuthorIds_Shared(n) == [k \in 1..n |-> nextId + 1]

\* Lines 178-186: one fresh ObjectId per author name.
NewAuthorIds(n) == [k \in 1..n |-> nextId + k]

\* The update filtered by id alone.
PublishQuery_AnyUploader(address, datasetId) == [_id |-> datasetId]

\* Line 196: the filter of the update.
PublishQuery(address, datasetId) == [uploader |-> address, _id |-> datasetId]

\* The update document without the title.
PublishUpdateDocument_NoTitle(p, authorIds) ==
  [published |-> TRUE, description |-> p.description,
   authors |-> authorIds, keywords |-> p.keywords]

\* The published flag written as false.
PublishUpdateDocument_Unpublished(p, authorIds) ==
  [published |-> FALSE, title |-> p.title, description |-> p.description,
   authors |-> authorIds, keywords |-> p.keywords]

\* Lines 197-205: the update document.
PublishUpdateDocument(p, authorIds) ==
  [published |-> TRUE, title |-> p.title, description |-> p.description,
   authors |-> authorIds, keywords |-> p.keywords]

\* Lines 135-186: the request arrives; validation, signature check and the
\* author ids, up to the first insertAuthor.
publishDataset_Begin(s) ==
  /\ CanBegin(s)
  /\ \E body \in PublishBodies :
       LET p == PublishParams(body)
           entered == [req[s] EXCEPT !.kind = "publishDataset", !.q = body]
       IN IF PublishMissing(p)
            THEN /\ req' = [req EXCEPT ![s] =
                      [entered EXCEPT !.pc = "done",
                         !.res = Error(400, "Failed to publish dataset. Missing parameters.")]]
                 /\ nextId' = nextId
            ELSE IF ~PublishAuthSuccess(body, p)
            THEN /\ req' = [req EXCEPT ![s] =
                      [entered EXCEPT !.pc = "done",
                         !.res = Error(400, "Failed to publish dataset. Signer != address")]]
                 /\ nextId' = nextId
            ELSE /\ req' = [req EXCEPT ![s] =
                      [entered EXCEPT !.pc = "insertAuthor",
                         !.loc.address = p.address,
                         !.loc.authorIds = NewAuthorIds(Len(p.authorsStrArr)),
                         !.loc.idx = 1]]
                 /\ nextId' = nextId + Len(p.authorsStrArr)
  /\ UNCHANGED <<datasets, chunks, files, authors, blobs, faults>>

\* Lines 187-196: one insertAuthor returns.  After the last one the update
\* is prepared, where new mongodb.ObjectId(datasetId) may throw into the
\* catch of line 216.
publishDataset_insertAuthor(s) ==
  /\ req[s].kind = "publishDataset" /\ req[s].pc = "insertAuthor"
  /\ \E outcome \in WriteOutcomes :
       LET r == req[s]
           p == PublishParams(r.q)
           author == [_id |-> r.loc.authorIds[r.loc.idx], name |-> p.authorsStrArr[r.loc.idx]]
           call == Call("insertAuthor", outcome)
       IN /\ faults' = Spend(outcome)
          /\ authors' = IF outcome = "ok" THEN insertAuthor(author) ELSE authors
          /\ req' =
               CASE outcome = "throw" -> Respond(s, Unhandled, call)
                 [] outcome = "false" ->
                      Respond(s, Error(400, "Failed to insert author into database"), call)
                 [] OTHER ->
                      IF r.loc.idx < Len(r.loc.authorIds)
                        THEN [req EXCEPT ![s].loc.idx = @ + 1, ![s].ops = Append(@, call)]
                      ELSE IF ObjectIdThrows(p.datasetId)
                        THEN Respond(s, Error(400, "Failed to publish dataset."), call)
                      ELSE [req EXCEPT ![s].pc = "updateDataset", ![s].loc.i = 0,
                                       ![s].loc.datasetId = p.datasetId,
                                       ![s].ops = Append(@, call)]
  /\ UNCHANGED <<datasets, chunks, files, blobs, nextId>>

\* Line 206: the number of times the update is tried.
MaxUpdateAttempts == 3

\* The loop bound taken inclusively (i <= 3).
UpdateRetried_Inclusive(i) == i + 1 <= MaxUpdateAttempts

\* Line 206: after the attempt numbered i (from 0) returned false, the loop
\* makes another one.
UpdateRetried(i) == i + 1 < MaxUpdateAttempts

\* Lines 206-222: one updateDataset returns; success answers 200, the third
\* failure (or a thrown error) answers 400.
publishDataset_updateDataset(s) ==
  /\ req[s].kind = "publishDataset" /\ req[s].pc = "updateDataset"
  /\ \E outcome \in WriteOutcomes :
       LET r == req[s]
           p == PublishParams(r.q)
           query == PublishQuery(r.loc.address, r.loc.datasetId)
           updateDocument == PublishUpdateDocument(p, r.loc.authorIds)
           success == outcome = "ok" /\ updateDatasetMatched(query)
           call == Call("updateDataset", IF success THEN "ok" ELSE IF outcome = "ok" THEN "false" ELSE outcome)
       IN /\ faults' = Spend(outcome)
          /\ datasets' = IF outcome = "ok" THEN updateDataset(query, updateDocument) ELSE datasets
          /\ req' =
               IF success
                 THEN Respond(s, [Ok(<<>>) EXCEPT !.error = "Successfully published dataset"], call)
               ELSE IF outcome = "throw" \/ ~UpdateRetried(r.loc.i)
                 THEN Respond(s, Error(400, "Failed to publish dataset."), call)
               ELSE [req EXCEPT ![s].loc.i = @ + 1, ![s].ops = Append(@, call)]
  /\ UNCHANGED <<chunks, files, authors, blobs, nextId>>

(***************************************************************************)
(* deleteFileMetadata                                                      *)
(***************************************************************************)
DeleteMessage(address, estuaryId) == <<"/metadata/files", address, estuaryId>>

\* The query strings drawn: every address with every known or unknown
\* estuaryId, signed by either owner or signed for another estuaryId; and
\* requests with a parameter missing, a malformed address, a non-canonical
\* estuaryId.
DeleteQueries ==
  LET full ==
        UNION { { [NoParams EXCEPT !.address = a, !.id = e, !.signature = sg] :
                    sg \in {Sign(k, DeleteMessage(a, parseInt(e))) : k \in Owners}
                             \cup {Sign(toLowerCase(a), DeleteMessage(a, 3 - parseInt(e)))} } :
                a \in RawAddrs, e \in {"1", "2", "3", "7"} }
      base == [NoParams EXCEPT !.address = "0xA", !.id = "1",
                               !.signature = Sign("0xa", DeleteMessage("0xA", 1))]
  IN full
       \cup { [base EXCEPT !.address = Undefined], [base EXCEPT !.id = Undefined],
              [base EXCEPT !.signature = NoSignature] }
       \cup { [base EXCEPT !.address = "b", !.signature = Sign("0xb", DeleteMessage("b", 1))] }
       \cup { [base EXCEPT !.id = "1x"] }

\* Lines 315-317.
DeleteMissing(q) ==
  Falsy(q.address) \/ Falsy(q.id) \/ q.signature = NoSignature

\* The signer checked, the signed message not.
DeleteAuthSuccess_AnyMessage(q) == q.signature.signer = toLowerCase(q.address)

\* Lines 332-333: the signature check.
DeleteAuthSuccess(q) ==
  assertSignerIsAddress(DeleteMessage(q.address, parseInt(q.id)), q.signature,
                        toLowerCase(q.address))

\* Lines 313-342: the request arrives; validation and the signature check,
\* up to the first getChunks.
deleteFileMetadata_Begin(s) ==
  /\ CanBegin(s)
  /\ \E q \in DeleteQueries :
       LET entered == [req[s] EXCEPT !.kind = "deleteFileMetadata", !.q = q]
       IN req' = [req EXCEPT ![s] =
            IF DeleteMissing(q)
              THEN [entered EXCEPT !.pc = "done", !.res = Error(400, "Missing parameter(s)")]
            ELSE IF AddressMalformed(q.address)
              THEN [entered EXCEPT !.pc = "done",
                      !.res = Error(400, "Address must start with 0x and be less than 42 characters long")]
            ELSE IF ~DeleteAuthSuccess(q)
              THEN [entered EXCEPT !.pc = "done",
                      !.res = Error(400, "Failed to delete file metadata. Signer != address")]
            ELSE [entered EXCEPT !.pc = "getChunks",
                    !.loc.address = toLowerCase(q.address),
                    !.loc.estuaryId = parseInt(q.id)]]
  /\ UNCHANGED <<datasets, chunks, files, authors, blobs, nextId, faults>>

\* Line 350: the dataset of the first chunk found.
FirstChunkDatasetId(found) == found[1].datasetId

\* The published check left out.
DatasetPublished_Unchecked(dataset) == FALSE

\* Line 358: the dataset is protected from deletion.
DatasetPublished(dataset) == dataset.published

\* Only the first chunk of the dataset.
datasetChildChunkIds_First(dataset) == <<dataset.chunkIds[1]>>

\* The chunks of every dataset.
datasetChildChunkIds_All(dataset) == ChunkOrder

\* Line 364: the chunks whose files, and which themselves, are deleted.
datasetChildChunkIds(dataset) == dataset.chunkIds

\* Lines 342-351: getChunks returns; the first chunk names the dataset.
deleteFileMetadata_getChunks(s) ==
  /\ req[s].kind = "deleteFileMetadata" /\ req[s].pc = "getChunks"
  /\ \E outcome \in ReadOutcomes :
       LET found == getChunksByEstuaryId(req[s].loc.estuaryId)
           call == Call("getChunks", outcome)
       IN /\ faults' = Spend(outcome)
          /\ req' =
               IF outcome = "throw" THEN Respond(s, Unhandled, call)
               ELSE IF Len(found) = 0
                 THEN Respond(s, Error(404, "Failed to delete file metadata. No corresponding chunks found."), call)
               ELSE [req EXCEPT ![s].pc = "getDatasets",
                                ![s].loc.datasetId = FirstChunkDatasetId(found),
                                ![s].ops = Append(@, call)]
  /\ UNCHANGED <<datasets, chunks, files, authors, blobs, nextId>>

\* Lines 351-365: getDatasets returns; a published dataset is refused.
deleteFileMetadata_getDatasets(s) ==
  /\ req[s].kind = "deleteFileMetadata" /\ req[s].pc = "getDatasets"
  /\ \E outcome \in ReadOutcomes :
       LET found == getDatasets([_id |-> req[s].loc.datasetId])
           call == Call("getDatasets", outcome)
       IN /\ faults' = Spend(outcome)
          /\ req' =
               IF outcome = "throw" THEN Respond(s, Unhandled, call)
               ELSE IF Len(found) = 0
                 THEN Respond(s, Error(404, "Failed to delete file metadata. No corresponding datasets found."), call)
               ELSE IF DatasetPublished(found[1])
                 THEN [Respond(s, Error(400, "Cannot delete published dataset"), call)
                         EXCEPT ![s].loc.dataset = found[1]]
               ELSE [req EXCEPT ![s].pc = "deleteCommonsFiles",
                                ![s].loc.dataset = found[1],
                                ![s].loc.chunkIds = datasetChildChunkIds(found[1]),
                                ![s].ops = Append(@, call)]
  /\ UNCHANGED <<datasets, chunks, files, authors, blobs, nextId>>

\* A delete step that returned false ends the request with an error.
DeleteStep_AbortOnFalse(s, op, outcome, next) ==
  IF outcome = "throw"
    THEN Respond(s, Unhandled, Call(op, outcome))
  ELSE IF outcome = "false"
    THEN Respond(s, Error(400, "An unknown error occurred. Failed to delete dataset."),
                 Call(op, outcome))
    ELSE [req EXCEPT ![s].pc = next, ![s].ops = Append(@, Call(op, outcome))]

\* After a delete step that returned (true or false) the handler goes on
\* to the next step; a thrown error leaves the handler.
DeleteStep(s, op, outcome, next) ==
  IF outcome = "throw"
    THEN Respond(s, Unhandled, Call(op, outcome))
    ELSE [req EXCEPT ![s].pc = next, ![s].ops = Append(@, Call(op, outcome))]

\* Lines 365-367.
deleteFileMetadata_deleteCommonsFiles(s) ==
  /\ req[s].kind = "deleteFileMetadata" /\ req[s].pc = "deleteCommonsFiles"
  /\ \E outcome \in WriteOutcomes :
       /\ faults' = Spend(outcome)
       /\ files' = IF outcome = "ok" THEN deleteCommonsFiles(req[s].loc.chunkIds) ELSE files
       /\ req' = DeleteStep(s, "deleteCommonsFiles", outcome, "deleteChunks")
  /\ UNCHANGED <<datasets, chunks, authors, blobs, nextId>>

\* Lines 369-371.
deleteFileMetadata_deleteChunks(s) ==
  /\ req[s].kind = "deleteFileMetadata" /\ req[s].pc = "deleteChunks"
  /\ \E outcome \in WriteOutcomes :
       /\ faults' = Spend(outcome)
       /\ chunks' = IF outcome = "ok" THEN deleteChunks(req[s].loc.chunkIds) ELSE chunks
       /\ req' = DeleteStep(s, "deleteChunks", outcome, "deleteDataset")
  /\ UNCHANGED <<datasets, files, authors, blobs, nextId>>

\* Line 373.
deleteFileMetadata_deleteDataset(s) ==
  /\ req[s].kind = "deleteFileMetadata" /\ req[s].pc = "deleteDataset"
  /\ \E outcome \in WriteOutcomes :
       /\ faults' = Spend(outcome)
       /\ datasets' = IF outcome = "ok" THEN deleteDataset(req[s].loc.datasetId) ELSE datasets
       /\ req' = DeleteStep(s, "deleteDataset", outcome, "deleteFile")
  /\ UNCHANGED <<chunks, files, authors, blobs, nextId>>

\* Lines 375-383: the Blob Store answers; its result is the request's.
deleteFileMetadata_deleteFile(s) ==
  /\ req[s].kind = "deleteFileMetadata" /\ req[s].pc = "deleteFile"
  /\ \E outcome \in WriteOutcomes :
       LET call == Call("deleteFile", outcome)
       IN /\ faults' = Spend(outcome)
          /\ blobs' = IF outcome = "ok" THEN deleteFile(req[s].loc.estuaryId) ELSE blobs
          /\ req' =
               CASE outcome = "throw" -> Respond(s, Unhandled, call)
                 [] outcome = "ok" ->
                      Respond(s, [Ok(<<>>) EXCEPT !.error = "Successfully deleted file metadata"], call)
                 [] OTHER ->
                      Respond(s, Error(400, "An unknown error occurred. Failed to delete dataset."), call)
  /\ UNCHANGED <<datasets, chunks, files, authors, nextId>>

\* How often a delete request has been re-run.
Reruns(r) == Len(SelectSeq(r.ops, LAMBDA call : call.op = "rerun"))

\* The service stops while the delete workflow of slot s is past the
\* published check and before one of its four deletes: the steps made so
\* far stay made, the remaining ones are never made.
deleteFileMetadata_Crash(s) ==
  /\ req[s].kind = "deleteFileMetadata"
  /\ req[s].pc \in {"deleteCommonsFiles", "deleteChunks", "deleteDataset", "deleteFile"}
  /\ Reruns(req[s]) < MaxReruns
  /\ req' = [req EXCEPT ![s].pc = "crashed", ![s].ops = Append(@, Call("crash", req[s].pc))]
  /\ UNCHANGED <<datasets, chunks, files, authors, blobs, nextId, faults>>

\* Lines 313-342 again: the same request is sent once more after its
\* workflow was stopped, or after it ran through all four deletes; it passed
\* validation and the signature check before and passes them again.
deleteFileMetadata_Rerun(s) ==
  /\ req[s].kind = "deleteFileMetadata"
  /\ \/ req[s].pc = "crashed"
     \/ req[s].pc = "done" /\ Call("deleteFile", "ok") \in Range(req[s].ops)
  /\ Reruns(req[s]) < MaxReruns
  /\ req' = [req EXCEPT ![s].pc = "getChunks",
                        ![s].loc = [NoLocals EXCEPT !.address = toLowerCase(req[s].q.address),
                                                    !.estuaryId = parseInt(req[s].q.id)],
                        ![s].res = NoResponse,
                        ![s].ops = Append(@, Call("rerun", req[s].pc))]
  /\ UNCHANGED <<datasets, chunks, files, authors, blobs, nextId, faults>>

(***************************************************************************)
(* The queries.  A query with a single Store read is one step: the read    *)
(* fixes its response.                                                     *)
(***************************************************************************)
\* The request of slot s, of handler kind with parameters q, has run to its
\* response res after the Store call `call`.
Answered(s, kind, q, res, call) ==
  [req EXCEPT ![s] = [@ EXCEPT !.kind = kind, !.q = q, !.pc = "done", !.res = res,
                               !.ops = Append(@, call)]]

\* The request of slot s has entered handler kind and is suspended at pc.
Entered(s, kind, q, pc, call) ==
  [req EXCEPT ![s] = [@ EXCEPT !.kind = kind, !.q = q, !.pc = pc,
                               !.ops = Append(@, call)]]

NoCall == Call("none", "ok")

QueryAddresses == RawAddrs \cup {Undefined}
QueryIds == DatasetIds \cup {"zz", Undefined}
SearchStrings == {"T0", "T1", "k2", Undefined}

\* Lines 21-38.
getDatasetMetadata(s) ==
  /\ CanBegin(s)
  /\ \E address \in QueryAddresses, outcome \in ReadOutcomes :
       LET q == [NoParams EXCEPT !.address = address]
           call == Call("getDatasets", outcome)
       IN IF Falsy(address)
            THEN /\ outcome = "ok"
                 /\ req' = Answered(s, "getDatasetMetadata", q,
                      Error(400, "Please specify the dataset uploader with the address query parameter"), NoCall)
                 /\ faults' = faults
            ELSE /\ faults' = Spend(outcome)
                 /\ req' = Answered(s, "getDatasetMetadata", q,
                      IF outcome = "ok"
                        THEN Ok(getDatasets([uploader |-> toLowerCase(address)]))
                        ELSE Error(404, "No datasets for the specified address"), call)
  /\ UNCHANGED <<datasets, chunks, files, authors, blobs, nextId>>

\* Lines 46-55.
getAllPublishedDatasets(s) ==
  /\ CanBegin(s)
  /\ \E outcome \in ReadOutcomes :
       /\ faults' = Spend(outcome)
       /\ req' = Answered(s, "getAllPublishedDatasets", NoParams,
            IF outcome = "ok"
              THEN Ok(getDatasets([published |-> TRUE]))
              ELSE Error(404, "There are no published datasets"),
            Call("getDatasets", outcome))
  /\ UNCHANGED <<datasets, chunks, files, authors, blobs, nextId>>

\* Lines 58-75 (getPublishedDatasets, lines 77-83, enters here when an id is
\* given and getAllPublishedDatasets otherwise).  The response holds the one
\* dataset found.
getPublishedDatasetById(s) ==
  /\ CanBegin(s)
  /\ \E id \in QueryIds, outcome \in ReadOutcomes :
       LET q == [NoParams EXCEPT !.id = id]
           none == Error(404, "There is no published dataset with the specified id")
           found == getDatasets([_id |-> id, published |-> TRUE])
       IN IF Falsy(id) \/ ObjectIdThrows(id)
            THEN /\ outcome = "ok"
                 /\ faults' = faults
                 /\ req' = Answered(s, "getPublishedDatasetById", q,
                      IF Falsy(id)
                        THEN Error(404, "Please specify the dataset ID via the id query parameter")
                        ELSE none, NoCall)
            ELSE /\ faults' = Spend(outcome)
                 /\ req' = Answered(s, "getPublishedDatasetById", q,
                      IF outcome = "ok" /\ Len(found) > 0 THEN Ok(<<found[1]>>) ELSE none,
                      Call("getDatasets", outcome))
  /\ UNCHANGED <<datasets, chunks, files, authors, blobs, nextId>>

\* Lines 85-106.
getPublishedDatasetsByUploader(s) ==
  /\ CanBegin(s)
  /\ \E uploader \in QueryAddresses, outcome \in ReadOutcomes :
       LET q == [NoParams EXCEPT !.address = uploader]
           found == getDatasets([uploader |-> toLowerCase(uploader), published |-> TRUE])
       IN IF Falsy(uploader)
            THEN /\ outcome = "ok"
                 /\ faults' = faults
                 /\ req' = Answered(s, "getPublishedDatasetsByUploader", q,
                      Error(400, "Please dataset uploader with the uploader query parameter"), NoCall)
            ELSE /\ faults' = Spend(outcome)
                 /\ req' = Answered(s, "getPublishedDatasetsByUploader", q,
                      IF outcome = "ok" /\ Len(found) > 0
                        THEN Ok(found)
                        ELSE Error(404, "Found no datasets whose uploader is the given one"),
                      Call("getDatasets", outcome))
  /\ UNCHANGED <<datasets, chunks, files, authors, blobs, nextId>>

\* Lines 108-129.
searchPublishedDatasets(s) ==
  /\ CanBegin(s)
  /\ \E searchStr \in SearchStrings, outcome \in ReadOutcomes :
       LET q == [NoParams EXCEPT !.id = searchStr]
           query == [published |-> TRUE] @@ ("$text" :> searchStr)
       IN IF Falsy(searchStr)
            THEN /\ outcome = "ok"
                 /\ faults' = faults
                 /\ req' = Answered(s, "searchPublishedDatasets", q,
                      Error(400, "Please provide a search string via the searchStr query parameter"), NoCall)
            ELSE /\ faults' = Spend(outcome)
                 /\ req' = Answered(s, "searchPublishedDatasets", q,
                      IF outcome = "ok" THEN Ok(getDatasets(query))
                      ELSE Error(404, "No published datasets found"),
                      Call("getDatasets", outcome))
  /\ UNCHANGED <<datasets, chunks, files, authors, blobs, nextId>>

\* The filter without the published condition.
PublishedChunksDsQuery_Any(datasetId) == [_id |-> datasetId]

\* Lines 237-240: the filter that admits only a published dataset.
PublishedChunksDsQuery(datasetId) == [_id |-> datasetId, published |-> TRUE]

\* Lines 226-243: the request arrives and getDatasets returns.
getPublishedChunksByDatasetId_getDatasets(s) ==
  /\ CanBegin(s)
  /\ \E datasetId \in QueryIds, outcome \in ReadOutcomes :
       LET q == [NoParams EXCEPT !.id = datasetId]
           kind == "getPublishedChunksByDatasetId"
           none == Error(404, "Found no chunks whose parent dataset is the given one")
           found == getDatasets(PublishedChunksDsQuery(datasetId))
       IN IF Falsy(datasetId) \/ ObjectIdThrows(datasetId)
            THEN /\ outcome = "ok"
                 /\ faults' = faults
                 /\ req' = Answered(s, kind, q,
                      IF Falsy(datasetId)
                        THEN Error(400, "Please specify the chunk's parent dataset with the datasetId query parameter")
                        ELSE none, NoCall)
            ELSE /\ faults' = Spend(outcome)
                 /\ req' = IF outcome = "ok" /\ Len(found) > 0
                             THEN Entered(s, kind, q, "getChunks", Call("getDatasets", outcome))
                             ELSE Answered(s, kind, q, none, Call("getDatasets", outcome))
  /\ UNCHANGED <<datasets, chunks, files, authors, blobs, nextId>>

\* Lines 243-251: getChunks returns.
getPublishedChunksByDatasetId_getChunks(s) ==
  /\ req[s].kind = "getPublishedChunksByDatasetId" /\ req[s].pc = "getChunks"
  /\ \E outcome \in ReadOutcomes :
       /\ faults' = Spend(outcome)
       /\ req' = Respond(s,
            IF outcome = "ok" THEN Ok(getChunksByDatasetId(req[s].q.id))
            ELSE Error(404, "Found no chunks whose parent dataset is the given one"),
            Call("getChunks", outcome))
  /\ UNCHANGED <<datasets, chunks, files, authors, blobs, nextId>>

\* Lines 385-402: the request arrives and getDatasets returns.
getAuthorsByDatasetId_getDatasets(s) ==
  /\ CanBegin(s)
  /\ \E datasetId \in QueryIds, outcome \in ReadOutcomes :
       LET q == [NoParams EXCEPT !.id = datasetId]
           kind == "getAuthorsByDatasetId"
           none == Error(400, "There are no authors for the specified dataset")
           found == getDatasets([_id |-> datasetId, published |-> TRUE])
       IN IF Falsy(datasetId) \/ ObjectIdThrows(datasetId)
            THEN /\ outcome = "ok"
                 /\ faults' = faults
                 /\ req' = Answered(s, kind, q,
                      IF Falsy(datasetId)
                        THEN Error(404, "Please specify the dataset ID via the datasetId query parameter")
                        ELSE none, NoCall)
            ELSE /\ faults' = Spend(outcome)
                 /\ req' = IF outcome = "ok" /\ Len(found) > 0
                             THEN [Entered(s, kind, q, "getAuthors", Call("getDatasets", outcome))
                                     EXCEPT ![s].loc.authorIds = found[1].authors]
                             ELSE Answered(s, kind, q, none, Call("getDatasets", outcome))
  /\ UNCHANGED <<datasets, chunks, files, authors, blobs, nextId>>

\* Lines 403-412: getAuthors returns.
getAuthorsByDatasetId_getAuthors(s) ==
  /\ req[s].kind = "getAuthorsByDatasetId" /\ req[s].pc = "getAuthors"
  /\ \E outcome \in ReadOutcomes :
       LET found == getAuthors(req[s].loc.authorIds)
       IN /\ faults' = Spend(outcome)
          /\ req' = Respond(s,
               IF outcome = "ok" /\ Len(found) > 0 THEN Ok(found)
               ELSE Error(400, "There are no authors for the specified dataset"),
               Call("getAuthors", outcome))
  /\ UNCHANGED <<datasets, chunks, files, authors, blobs, nextId>>

(***************************************************************************)
(* getFileMetadata                                                         *)
(***************************************************************************)
RECURSIVE Flatten(_)
\* Lines 269-272 and 281-287: push(...list) for each element in turn.
Flatten(seqs) == IF seqs = <<>> THEN <<>> ELSE Head(seqs) \o Flatten(Tail(seqs))

\* Every file gets the estuaryId of the first chunk found.
FileIdToEstuaryId_First(found) ==
  [fileId \in UNION {Range(found[k].fileIds) : k \in DOMAIN found} |->
     found[1].storageIds.estuaryId]

\* Lines 280-288: the estuaryId of the chunk that lists the file; a later
\* chunk overwrites an earlier one.
FileIdToEstuaryId(found) ==
  [fileId \in UNION {Range(found[k].fileIds) : k \in DOMAIN found} |->
     LET last == CHOOSE k \in DOMAIN found :
                   /\ fileId \in Range(found[k].fileIds)
                   /\ \A j \in DOMAIN found : fileId \in Range(found[j].fileIds) => j <= k
     IN found[last].storageIds.estuaryId]

\* Lines 295-300: each file with the estuaryId looked up for it.
FilesWithEstIds(found, fileIdToEstuaryId) ==
  [k \in DOMAIN found |->
     [_id |-> found[k]._id, chunkId |-> found[k].chunkId,
      estuaryId |-> fileIdToEstuaryId[found[k]._id]]]

\* Line 268: the filter that selects the datasets of the address.
FileMetadataDsQuery(address) == [uploader |-> address]

NoFiles == Error(400, "No files for the specified address")

\* Lines 258-273: the request arrives and getDatasets returns.
getFileMetadata_getDatasets(s) ==
  /\ CanBegin(s)
  /\ \E address \in QueryAddresses, outcome \in ReadOutcomes :
       LET q == [NoParams EXCEPT !.address = address]
           found == getDatasets(FileMetadataDsQuery(toLowerCase(address)))
           call == Call("getDatasets", outcome)
       IN IF Falsy(address)
            THEN /\ outcome = "ok"
                 /\ faults' = faults
                 /\ req' = Answered(s, "getFileMetadata", q,
                      Error(400, "Please specify the uploader with the address query parameter"), NoCall)
            ELSE /\ faults' = Spend(outcome)
                 /\ req' = IF outcome = "ok"
                             THEN [Entered(s, "getFileMetadata", q, "getChunks", call)
                                     EXCEPT ![s].loc.chunkIds =
                                       Flatten([k \in DOMAIN found |-> found[k].chunkIds])]
                             ELSE Answered(s, "getFileMetadata", q, NoFiles, call)
  /\ UNCHANGED <<datasets, chunks, files, authors, blobs, nextId>>

\* Lines 279-293: getChunks returns.
getFileMetadata_getChunks(s) ==
  /\ req[s].kind = "getFileMetadata" /\ req[s].pc = "getChunks"
  /\ \E outcome \in ReadOutcomes :
       LET found == getChunksIn(req[s].loc.chunkIds)
           call == Call("getChunks", outcome)
       IN /\ faults' = Spend(outcome)
          /\ req' = IF outcome = "ok"
                      THEN [req EXCEPT ![s].pc = "getCommonsFiles",
                              ![s].loc.fileIdToEstuaryId = FileIdToEstuaryId(found),
                              ![s].loc.fileIds = Flatten([k \in DOMAIN found |-> found[k].fileIds]),
                              ![s].ops = Append(@, call)]
                      ELSE Respond(s, NoFiles, call)
  /\ UNCHANGED <<datasets, chunks, files, authors, blobs, nextId>>

\* Lines 294-305: getCommonsFiles returns.
getFileMetadata_getCommonsFiles(s) ==
  /\ req[s].kind = "getFileMetadata" /\ req[s].pc = "getCommonsFiles"
  /\ \E outcome \in ReadOutcomes :
       /\ faults' = Spend(outcome)
       /\ req' = Respond(s,
            IF outcome = "ok"
              THEN Ok(FilesWithEstIds(getCommonsFiles(req[s].loc.fileIds),
                                      req[s].loc.fileIdToEstuaryId))
              ELSE NoFiles,
            Call("getCommonsFiles", outcome))
  /\ UNCHANGED <<datasets, chunks, files, authors, blobs, nextId>>

Next ==
  \E s \in Slots :
    \/ publishDataset_Begin(s)
    \/ publishDataset_insertAuthor(s)
    \/ publishDataset_updateDataset(s)
    \/ deleteFileMetadata_Begin(s)
    \/ deleteFileMetadata_getChunks(s)
    \/ deleteFileMetadata_getDatasets(s)
    \/ deleteFileMetadata_deleteCommonsFiles(s)
    \/ deleteFileMetadata_deleteChunks(s)
    \/ deleteFileMetadata_deleteDataset(s)
    \/ deleteFileMetadata_deleteFile(s)
    \/ getDatasetMetadata(s)
    \/ getAllPublishedDatasets(s)
    \/ getPublishedDatasetById(s)
    \/ getPublishedDatasetsByUploader(s)
    \/ searchPublishedDatasets(s)
    \/ getPublishedChunksByDatasetId_getDatasets(s)
    \/ getPublishedChunksByDatasetId_getChunks(s)
    \/ getAuthorsByDatasetId_getDatasets(s)
    \/ getAuthorsByDatasetId_getAuthors(s)
    \/ getFileMetadata_getDatasets(s)
    \/ getFileMetadata_getChunks(s)
    \/ getFileMetadata_getCommonsFiles(s)

Spec == Init /\ [][Next]_vars

\* The service with stops and re-runs of the delete workflow.
NextRerun ==
  \/ Next
  \/ \E s \in Slots : deleteFileMetadata_Crash(s) \/ deleteFileMetadata_Rerun(s)

SpecRerun == Init /\ [][NextRerun]_vars

(***************************************************************************)
(* Properties.                                                             *)
(***************************************************************************)
IsDelete(r) == r.kind = "deleteFileMetadata"
IsPublish(r) == r.kind = "publishDataset"

\* The names of the Store / Blob Store calls a request has made.
OpsOf(r) == [k \in DOMAIN r.ops |-> r.ops[k].op]

DeleteOps == {"deleteCommonsFiles", "deleteChunks", "deleteDataset", "deleteFile"}

\* The request has resolved the dataset it is to delete (line 357).
Resolved(r) == IsDelete(r) /\ r.loc.dataset # NoDataset

\* The records and blobs that belong to dataset d (by the upload's layout).
ChunksOf(d) == {c \in DOMAIN InitChunks : InitChunks[c].datasetId = d}
FilesOf(d) == {f \in DOMAIN InitFiles : InitFiles[f].chunkId \in ChunksOf(d)}
BlobsOf(d) == {InitChunks[c].storageIds.estuaryId : c \in ChunksOf(d)}

\* What is stored of dataset d: its Dataset record, Chunks, Files and blobs.
StoredOf(d) ==
  [dataset |-> {d} \cap DOMAIN datasets, chunks |-> ChunksOf(d) \cap DOMAIN chunks,
   files |-> FilesOf(d) \cap DOMAIN files, blobs |-> BlobsOf(d) \cap blobs]

\* C1: a delete request whose resolved dataset is published has ended with
\* the 400 "Cannot delete published dataset" response and has issued no
\* delete of Files, Chunks, the Dataset or the blob.
C1_DeletePublishedFails ==
  \A s \in Slots :
    (Resolved(req[s]) /\ req[s].loc.dataset.published) =>
      /\ req[s].pc = "done"
      /\ req[s].res = Error(400, "Cannot delete published dataset")
      /\ Range(OpsOf(req[s])) \cap DeleteOps = {}

\* A delete request was refused for a published dataset, whose records and
\* blob are all still stored.
C1_Witness ==
  \E s \in Slots :
    /\ Resolved(req[s]) /\ req[s].loc.dataset.published /\ req[s].pc = "done"
    /\ StoredOf("d2") = [dataset |-> {"d2"}, chunks |-> {"c3"}, files |-> {"f4"}, blobs |-> {2}]

\* C2 as claimed: once a dataset's published flag is true, no step removes
\* its Dataset record, a Chunk or File of it, or its blob.
C2_PublishedNeverDeleted ==
  [][\A d \in DOMAIN datasets : datasets[d].published => StoredOf(d)' = StoredOf(d)]_vars

\* C2 as amended: a step removes a record or blob of a dataset only as a step
\* of a delete request that found this dataset unpublished when it read it
\* (line 351); a publish after that read does not stop the delete.
C2_DeleteOnlyIfUnpublishedAtCheck ==
  [][\A d \in DatasetIds :
       StoredOf(d)' # StoredOf(d) =>
         \E s \in Slots :
           /\ Resolved(req[s]) /\ req[s].loc.dataset._id = d
           /\ ~req[s].loc.dataset.published
           /\ req'[s] # req[s]]_vars

\* A dataset is published in the Store while a delete request that read it
\* as unpublished has already removed its Files.
C2_Witness ==
  \E s \in Slots :
    /\ Resolved(req[s]) /\ req[s].loc.dataset._id = "d1" /\ req[s].pc = "deleteChunks"
    /\ "d1" \in DOMAIN datasets /\ datasets["d1"].published
    /\ FilesOf("d1") \cap DOMAIN files = {}

\* The publish request r names an existing dataset that its address does
\* not own (addresses compare without regard to case).
PublishByNonOwner(r) ==
  /\ IsPublish(r)
  /\ r.q.id \in DatasetIds /\ r.q.address # Undefined
  /\ InitDatasets[r.q.id].uploader # toLowerCase(r.q.address)

\* C3: no step of a publish request by a non-owner changes any dataset or
\* ends the request with success, whoever signed it.
C3_NonOwnerPublishFails ==
  [][\A s \in Slots :
       (PublishByNonOwner(req'[s]) /\ req'[s] # req[s]) =>
         /\ datasets' = datasets
         /\ req'[s].res.status # 200]_vars

\* A publish request of a non-owner, signed validly by that non-owner, has
\* tried the update three times and answered 400; the dataset is untouched.
C3_Witness ==
  \E s \in Slots :
    /\ PublishByNonOwner(req[s]) /\ req[s].pc = "done"
    /\ req[s].q.id = "d1" /\ req[s].q.signature.signer = "0xb"
    /\ req[s].res = Error(400, "Failed to publish dataset.")
    /\ Len(SelectSeq(OpsOf(req[s]), LAMBDA op : op = "updateDataset")) = MaxUpdateAttempts
    /\ datasets["d1"] = InitDatasets["d1"]

\* C4 as claimed: a delete request whose address is not the uploader of the
\* dataset it resolved issues no delete of Files, Chunks, Dataset or blob.
C4_DeleteOnlyByUploader ==
  \A s \in Slots :
    (Resolved(req[s]) /\ req[s].loc.dataset.uploader # req[s].loc.address) =>
      Range(OpsOf(req[s])) \cap DeleteOps = {}

\* The metadata a publish request writes with its update.
WrittenBy(r) ==
  [published |-> TRUE, title |-> sanitizeHtml(r.q.title),
   description |-> sanitizeHtml(r.q.description), authors |-> r.loc.authorIds,
   keywords |-> splitMap(r.q.keywords)]

\* The dataset record carries exactly this metadata, published.
Carries(dataset, doc) ==
  /\ dataset.published = doc.published
  /\ dataset.title = doc.title
  /\ dataset.description = doc.description
  /\ dataset.authors = doc.authors
  /\ dataset.keywords = doc.keywords

\* C5: a dataset that is published carries title, description, author ids
\* and keywords of one single publish: the one before this service started
\* or one publish request for this dataset, never a mix.
C5_PublishAtomic ==
  \A d \in DOMAIN datasets :
    datasets[d].published =>
      \/ (InitDatasets[d].published /\ Carries(datasets[d], InitDatasets[d]))
      \/ \E s \in Slots :
           /\ IsPublish(req[s]) /\ req[s].q.id = d /\ req[s].pc = "done"
           /\ Carries(datasets[d], WrittenBy(req[s]))

\* Two publish requests for d1 with different metadata have both succeeded;
\* d1 is published with the metadata of the second body.
C5_Witness ==
  \E s, t \in Slots :
    /\ s # t /\ IsPublish(req[s]) /\ IsPublish(req[t])
    /\ req[s].q.id = "d1" /\ req[t].q.id = "d1"
    /\ req[s].res.status = 200 /\ req[t].res.status = 200
    /\ req[s].q.title = "T1" /\ req[t].q.title = "T2"
    /\ datasets["d1"].published /\ datasets["d1"].title = "T2"

\* The delete calls a request has made, in order, and how each ended.
DeleteCalls(r) == SelectSeq(r.ops, LAMBDA call : call.op \in DeleteOps)

DeleteOrder == <<"deleteCommonsFiles", "deleteChunks", "deleteDataset", "deleteFile">>

\* The delete calls made so far are the first ones of the documented order.
InDeleteOrder(r) ==
  /\ Len(DeleteCalls(r)) <= 4
  /\ \A k \in DOMAIN DeleteCalls(r) : DeleteCalls(r)[k].op = DeleteOrder[k]

\* The workflow of a delete request that passed the published check has run
\* to its response.
DeleteCompleted(r) ==
  /\ Resolved(r) /\ ~r.loc.dataset.published
  /\ r.pc = "done" /\ r.res.status # 0

\* No File, Chunk or Dataset record of dataset d is stored.
NoRecordOf(d) ==
  /\ StoredOf(d).dataset = {} /\ StoredOf(d).chunks = {} /\ StoredOf(d).files = {}

\* C6 as claimed: a delete request for an unpublished dataset makes its four
\* deletes in the order Files, Chunks, Dataset, blob, and when it has
\* completed no File, Chunk or Dataset record of the dataset is stored.
C6_DeleteRemovesAll ==
  \A s \in Slots :
    /\ IsDelete(req[s]) => InDeleteOrder(req[s])
    /\ DeleteCompleted(req[s]) =>
         /\ Len(DeleteCalls(req[s])) = 4
         /\ NoRecordOf(req[s].loc.dataset._id)

\* C6 as amended: the same, the records being gone when the workflow has
\* completed and its three Store deletes each succeeded.
C6_DeleteRemovesAllIfDeletesSucceed ==
  \A s \in Slots :
    /\ IsDelete(req[s]) => InDeleteOrder(req[s])
    /\ DeleteCompleted(req[s]) =>
         /\ Len(DeleteCalls(req[s])) = 4
         /\ (\A k \in 1..3 : DeleteCalls(req[s])[k].outcome = "ok") =>
              NoRecordOf(req[s].loc.dataset._id)

\* A delete of the unpublished d1 has completed with all four steps
\* succeeding, and nothing of d1 is left.
C6_Witness ==
  \E s \in Slots :
    /\ DeleteCompleted(req[s]) /\ req[s].loc.dataset._id = "d1"
    /\ req[s].res.status = 200
    /\ \A k \in 1..4 : DeleteCalls(req[s])[k].outcome = "ok"
    /\ NoRecordOf("d1") /\ 1 \notin blobs

\* C7 as claimed: every chunk id of an existing Dataset names an existing
\* Chunk.
C7_ChunkIdsResolve ==
  \A d \in DOMAIN datasets : Range(datasets[d].chunkIds) \subseteq DOMAIN chunks

\* A delete request for dataset d has made its deleteChunks call.
ChunksDeletedFor(d) ==
  \E s \in Slots :
    /\ Resolved(req[s]) /\ req[s].loc.dataset._id = d
    /\ "deleteChunks" \in Range(OpsOf(req[s]))

\* C7 as amended: every chunk id of an existing Dataset names an existing
\* Chunk, unless a delete request for that dataset has made its deleteChunks
\* call (the Chunks go before the Dataset record).
C7_ChunkIdsResolveUntilChunksDeleted ==
  \A d \in DOMAIN datasets :
    ~ChunksDeletedFor(d) => Range(datasets[d].chunkIds) \subseteq DOMAIN chunks

\* A delete of d1 is between its Files step and its Chunks step: d1 and d2
\* exist and all their chunk ids resolve.
C7_Witness ==
  \E s \in Slots :
    /\ Resolved(req[s]) /\ req[s].loc.dataset._id = "d1" /\ req[s].pc = "deleteChunks"
    /\ FilesOf("d1") \cap DOMAIN files = {}
    /\ DOMAIN datasets = {"d1", "d2"}
    /\ \A d \in DOMAIN datasets : Range(datasets[d].chunkIds) \subseteq DOMAIN chunks

\* The author names of a publish request.
AuthorNames(r) == PublishParams(r.q).authorsStrArr

\* The publish request passed validation and the signature check, and every
\* insertAuthor of it has been made and succeeded.
InsertsOk(r) ==
  /\ IsPublish(r) /\ r.pc \in {"updateDataset", "done"}
  /\ Len(r.loc.authorIds) > 0
  /\ Len(SelectSeq(r.ops, LAMBDA call : call = Call("insertAuthor", "ok")))
       = Len(r.loc.authorIds)

\* There is exactly one Author record per name of the request, under the
\* request's ids in the order of the names; the ids are the request's own.
AuthorsCreated(s, r, stored) ==
  /\ Len(r.loc.authorIds) = Len(AuthorNames(r))
  /\ \A k \in DOMAIN r.loc.authorIds :
       {a \in stored : a._id = r.loc.authorIds[k]}
         = {[_id |-> r.loc.authorIds[k], name |-> AuthorNames(r)[k]]}
  /\ Cardinality(Range(r.loc.authorIds)) = Len(AuthorNames(r))
  /\ Range(r.loc.authorIds) \cap {a._id : a \in InitAuthors} = {}
  /\ \A t \in Slots \ {s} :
       IsPublish(req[t]) => Range(r.loc.authorIds) \cap Range(req[t].loc.authorIds) = {}

\* The publish request is by the uploader of the existing dataset it names.
PublishByOwner(r) ==
  /\ IsPublish(r) /\ r.q.id \in DatasetIds /\ r.q.address # Undefined
  /\ InitDatasets[r.q.id].uploader = toLowerCase(r.q.address)

\* C8 as claimed: when a publish request of the dataset's owner whose
\* inserts all succeeded ends, its n Author records exist under n fresh ids
\* and the dataset's author list is these ids in the order of the names.
C8_PublishSetsAuthors ==
  [][\A s \in Slots :
       (/\ InsertsOk(req'[s]) /\ PublishByOwner(req'[s])
        /\ req[s].pc # "done" /\ req'[s].pc = "done") =>
         /\ AuthorsCreated(s, req'[s], authors')
         /\ req[s].q.id \in DOMAIN datasets'
         /\ datasets'[req[s].q.id].authors = req[s].loc.authorIds]_vars

\* C8 as amended: the n Author records exist under n fresh ids once the
\* inserts have all succeeded, and the dataset's author list is set to these
\* ids, in order, when the dataset update succeeds too (the request answers
\* 200).
C8_PublishSetsAuthorsOnSuccess ==
  [][\A s \in Slots :
       (InsertsOk(req'[s]) /\ req'[s] # req[s]) =>
         /\ AuthorsCreated(s, req'[s], authors')
         /\ req'[s].res.status = 200 =>
              /\ req[s].q.id \in DOMAIN datasets'
              /\ datasets'[req[s].q.id].authors = req[s].loc.authorIds]_vars

\* Two publish requests that both name Bob have succeeded: there are two
\* Author records named Bob, and d1 lists the two ids of "Alice,Bob".
C8_Witness ==
  \E s, t \in Slots :
    /\ s # t /\ InsertsOk(req[s]) /\ InsertsOk(req[t])
    /\ req[s].res.status = 200 /\ req[t].res.status = 200
    /\ AuthorNames(req[s]) = <<"Alice", "Bob">> /\ req[s].q.id = "d1"
    /\ Cardinality({a \in authors : a.name = "Bob"}) = 2
    /\ datasets["d1"].authors = req[s].loc.authorIds
    /\ Len(datasets["d1"].authors) = 2

PublishedOnlyDatasetQueries ==
  {"getAllPublishedDatasets", "getPublishedDatasetById",
   "getPublishedDatasetsByUploader", "searchPublishedDatasets"}

\* The dataset with this id is stored and published.
IsPublished(id) == id \in DOMAIN datasets /\ datasets[id].published

\* C9: every dataset a published-only dataset query returns is published in
\* the Store it read; getPublishedChunksByDatasetId goes on to read chunks,
\* and getAuthorsByDatasetId to read authors, only of a dataset that was
\* published when checked, and they return chunks of that dataset and
\* authors of that dataset's list only.
C9_PublishedOnlyQueries ==
  [][\A s \in Slots :
       req'[s] # req[s] =>
         LET r == req'[s]
         IN /\ (r.kind \in PublishedOnlyDatasetQueries /\ r.res.status = 200) =>
                 \A k \in DOMAIN r.res.data :
                   /\ r.res.data[k].published
                   /\ IsPublished(r.res.data[k]._id)
                   /\ r.res.data[k] = datasets[r.res.data[k]._id]
            /\ (r.kind = "getPublishedChunksByDatasetId" /\ r.pc = "getChunks") =>
                 IsPublished(r.q.id)
            /\ (r.kind = "getPublishedChunksByDatasetId" /\ r.res.status = 200) =>
                 /\ req[s].pc = "getChunks"
                 /\ \A k \in DOMAIN r.res.data : r.res.data[k].datasetId = r.q.id
            /\ (r.kind = "getAuthorsByDatasetId" /\ r.pc = "getAuthors") =>
                 /\ IsPublished(r.q.id)
                 /\ r.loc.authorIds = datasets[r.q.id].authors
            /\ (r.kind = "getAuthorsByDatasetId" /\ r.res.status = 200) =>
                 /\ req[s].pc = "getAuthors"
                 /\ \A k \in DOMAIN r.res.data :
                      r.res.data[k]._id \in Range(req[s].loc.authorIds)]_vars

\* The chunk of the published d2 was returned, and a search returned a
\* published dataset.
C9_Witness ==
  \E s, t \in Slots :
    /\ req[s].kind = "getPublishedChunksByDatasetId" /\ req[s].q.id = "d2"
    /\ req[s].res.status = 200 /\ Len(req[s].res.data) = 1
    /\ req[t].kind = "searchPublishedDatasets" /\ req[t].res.status = 200
    /\ Len(req[t].res.data) = 1

\* The files of the datasets of an address, by the upload's layout.
FilesOfOwner(address) ==
  UNION {FilesOf(d) : d \in {x \in DatasetIds : InitDatasets[x].uploader = address}}

\* The files of the address that are stored with their chunk and dataset.
StoredFilesOfOwner(address) ==
  {f \in DOMAIN files :
     /\ files[f].chunkId \in DOMAIN chunks
     /\ chunks[files[f].chunkId].datasetId \in DOMAIN datasets
     /\ datasets[chunks[files[f].chunkId].datasetId].uploader = address}

\* C10: the files getFileMetadata(address) has returned are files of chunks
\* of datasets uploaded by the address, each once and each with the
\* estuaryId of the chunk that holds it, and every stored file of the
\* address is among them.
C10_FilesOfOwner ==
  \A s \in Slots :
    (req[s].kind = "getFileMetadata" /\ req[s].res.status = 200) =>
      LET data == req[s].res.data
          address == toLowerCase(req[s].q.address)
      IN /\ \A k \in DOMAIN data :
              /\ data[k]._id \in FilesOfOwner(address)
              /\ data[k].chunkId = InitFiles[data[k]._id].chunkId
              /\ data[k].estuaryId = InitChunks[data[k].chunkId].storageIds.estuaryId
         /\ \A j, k \in DOMAIN data : data[j]._id = data[k]._id => j = k
         /\ StoredFilesOfOwner(address) \subseteq {data[k]._id : k \in DOMAIN data}

\* getFileMetadata has returned the three files of 0xa with the blobs of
\* their two chunks, while nothing was deleted.
C10_Witness ==
  \E s \in Slots :
    /\ req[s].kind = "getFileMetadata" /\ req[s].res.status = 200
    /\ {<<req[s].res.data[k]._id, req[s].res.data[k].estuaryId>> : k \in DOMAIN req[s].res.data}
         = {<<"f1", 1>>, <<"f2", 1>>, <<"f3", 3>>}
    /\ DOMAIN files = DOMAIN InitFiles

\* A required input of the publish request is absent from its body.
PublishInputMissing(body) ==
  \/ \E f \in {"address", "id", "title", "description"} : body[f] = Undefined
  \/ body.signature = NoSignature
  \/ body.authors = Absent
  \/ body.keywords = Absent

\* C11 as claimed: a publish request with any of address, signature,
\* datasetId, title, description, author list or keyword list missing has
\* ended with the 400 missing-parameters response and made no Store call.
C11_PublishMissingInputFails ==
  \A s \in Slots :
    (IsPublish(req[s]) /\ PublishInputMissing(req[s].q)) =>
      /\ req[s].pc = "done"
      /\ req[s].res = Error(400, "Failed to publish dataset. Missing parameters.")
      /\ req[s].ops = <<>>

\* The signature is one made by the address (compared without regard to
\* case) over exactly this message.
SignedBy(signature, address, msg) ==
  signature.signer = toLowerCase(address) /\ signature.msg = msg

\* The request is a publish or delete request that carries all its inputs,
\* well formed, and a signature that does not verify against its address
\* and the message of the operation.
BadSignature(r) ==
  \/ /\ IsPublish(r) /\ ~PublishInputMissing(r.q)
     /\ ~SignedBy(r.q.signature, r.q.address, <<r.q.address, r.q.id>>)
  \/ /\ IsDelete(r)
     /\ r.q.address \in RawAddrs /\ r.q.id # Undefined /\ r.q.signature # NoSignature
     /\ ~SignedBy(r.q.signature, r.q.address,
                  <<"/metadata/files", r.q.address, parseInt(r.q.id)>>)

\* C12: a publish or delete request whose signature does not verify against
\* the claimed address has ended with the 400 "Signer != address" response
\* of its handler and has made no Store or Blob Store call.
C12_BadSignatureFails ==
  \A s \in Slots :
    BadSignature(req[s]) =>
      /\ req[s].pc = "done"
      /\ req[s].res = Error(400, IF IsPublish(req[s])
                                   THEN "Failed to publish dataset. Signer != address"
                                   ELSE "Failed to delete file metadata. Signer != address")
      /\ req[s].ops = <<>>

\* A publish of d1 signed by 0xb for the address 0xa and a delete of
\* estuaryId 1 signed for another estuaryId have both been refused, and the
\* Store and the Blob Store are as they were.
C12_Witness ==
  \E s, t \in Slots :
    /\ BadSignature(req[s]) /\ IsPublish(req[s]) /\ req[s].pc = "done"
    /\ req[s].q.id = "d1" /\ req[s].q.address = "0xA" /\ req[s].q.signature.signer = "0xb"
    /\ BadSignature(req[t]) /\ IsDelete(req[t]) /\ req[t].pc = "done"
    /\ req[t].q.id = "1" /\ req[t].q.signature = Sign("0xa", DeleteMessage("0xA", 2))
    /\ datasets = InitDatasets /\ chunks = InitChunks /\ files = InitFiles
    /\ authors = InitAuthors /\ blobs = {1, 2, 3}

\* A Store or Blob Store call of the request has thrown.
CallThrew(r) == \E k \in DOMAIN r.ops : r.ops[k].outcome = "throw"

\* C13 as claimed: a request whose handler has been left has been answered
\* with a structured response (a status and a body), and a request one of
\* whose Store or Blob Store calls threw has been answered with an error
\* response.
C13_EveryRequestAnswered ==
  \A s \in Slots :
    /\ req[s].pc = "done" => req[s].res.status \in {200, 400, 404}
    /\ CallThrew(req[s]) => req[s].pc = "done" /\ req[s].res.status \in {400, 404}

\* The dataset a delete request is about, by the upload's layout: the one
\* of the first chunk stored under the request's estuaryId.
TargetOf(r) ==
  LET hits == SelectSeq(ChunkOrder,
                LAMBDA c : InitChunks[c].storageIds.estuaryId = parseInt(r.q.id))
  IN IF hits = <<>> THEN Undefined ELSE InitChunks[hits[1]].datasetId

\* Where in its log of calls the request was last re-run, and the calls of
\* the run before and of the run after.
LastRerun(r) ==
  CHOOSE k \in DOMAIN r.ops :
    r.ops[k].op = "rerun" /\ \A j \in DOMAIN r.ops : j > k => r.ops[j].op # "rerun"
CallsBeforeRerun(r) == SubSeq(r.ops, 1, LastRerun(r) - 1)
CallsOfRerun(r) == SubSeq(r.ops, LastRerun(r) + 1, Len(r.ops))

\* C14 as claimed: when a delete workflow that was stopped after some of its
\* steps has been re-run from the top, alone and with every call of the
\* re-run succeeding, and the re-run has ended, no File, Chunk or Dataset
\* record of the dataset is stored and the blob deletion was requested; and
\* a re-run after the workflow completed with all four deletes succeeding
\* makes no delete.
C14_RerunCompletesCleanup ==
  \A s \in Slots :
    (IsDelete(req[s]) /\ Reruns(req[s]) > 0) =>
      LET r == req[s]
      IN /\ (/\ r.ops[LastRerun(r)].outcome = "crashed"
             /\ r.pc = "done"
             /\ \A k \in DOMAIN CallsOfRerun(r) : CallsOfRerun(r)[k].outcome = "ok"
             /\ \A t \in Slots \ {s} : req[t].pc = "idle") =>
               /\ NoRecordOf(TargetOf(r))
               /\ "deleteFile" \in Range(OpsOf([ops |-> CallsOfRerun(r)]))
         /\ (/\ r.ops[LastRerun(r)].outcome = "done"
             /\ \A k \in DOMAIN CallsBeforeRerun(r) : CallsBeforeRerun(r)[k].outcome = "ok") =>
               Range(OpsOf([ops |-> CallsOfRerun(r)])) \cap DeleteOps = {}

\* No File is stored whose Chunk is not, and no Chunk whose Dataset is not.
NoDanglingChild ==
  /\ \A f \in DOMAIN files : files[f].chunkId \in DOMAIN chunks
  /\ \A c \in DOMAIN chunks : chunks[c].datasetId \in DOMAIN datasets

\* A delete request for dataset d has made the Store delete op, which
\* returned false.
DeleteFailedFor(d, op) ==
  \E s \in Slots :
    /\ IsDelete(req[s]) /\ TargetOf(req[s]) = d
    /\ Call(op, "false") \in Range(req[s].ops)

\* C15 as claimed: when a delete workflow has stopped after some of its
\* steps, no File is stored whose Chunk is removed and no Chunk whose
\* Dataset is removed.
C15_NoDanglingChildAfterStop ==
  (\E s \in Slots : IsDelete(req[s]) /\ req[s].pc = "crashed") => NoDanglingChild

\* C15 as amended: at every point of a delete workflow, and so wherever it
\* stops, a File whose Chunk is removed is stored only if the Files delete
\* of a request for its dataset returned false, and a Chunk whose Dataset is
\* removed only if the Chunks delete of a request for its dataset returned
\* false: when the deletes made so far each succeeded, the worst is a
\* Dataset record whose children are removed.
C15_NoDanglingChildUnlessDeleteFailed ==
  /\ \A f \in DOMAIN files :
       files[f].chunkId \notin DOMAIN chunks =>
         DeleteFailedFor(InitChunks[files[f].chunkId].datasetId, "deleteCommonsFiles")
  /\ \A c \in DOMAIN chunks :
       chunks[c].datasetId \notin DOMAIN datasets =>
         DeleteFailedFor(chunks[c].datasetId, "deleteChunks")

\* A delete of d1 stopped after its Files and Chunks deletes succeeded: the
\* Dataset record of d1 is stored and none of its Chunks and Files.
C15_Witness ==
  \E s \in Slots :
    /\ IsDelete(req[s]) /\ req[s].pc = "crashed" /\ TargetOf(req[s]) = "d1"
    /\ Call("crash", "deleteDataset") \in Range(req[s].ops)
    /\ faults = 0
    /\ StoredOf("d1") = [dataset |-> {"d1"}, chunks |-> {}, files |-> {}, blobs |-> {1, 3}]
    /\ NoDanglingChild

\* The updateDataset calls a publish request has made, in order.
UpdateCalls(r) == SelectSeq(r.ops, LAMBDA call : call.op = "updateDataset")

FailedToPublish == Error(400, "Failed to publish dataset.")

\* What C16 says of the attempts in every case: at most 3 are made, a
\* successful one is the last and answers 200 at once, 200 is answered only
\* after a successful one, and a step that ends in the failure response or
\* in a failed attempt leaves every dataset unchanged.
UpdateAttemptsBounded(s) ==
  LET r == req'[s]
      u == UpdateCalls(r)
  IN /\ Len(u) <= 3
     /\ \A k \in DOMAIN u :
          u[k].outcome = "ok" => k = Len(u) /\ r.pc = "done" /\ r.res.status = 200
     /\ r.res.status = 200 => u # <<>> /\ u[Len(u)].outcome = "ok"
     /\ (r.res = FailedToPublish \/ (u # <<>> /\ u[Len(u)].outcome # "ok")) =>
          datasets' = datasets

InsertCalls(r) == SelectSeq(r.ops, LAMBDA call : call.op = "insertAuthor")

\* C17 as claimed: when the k-th insertAuthor of a publish request has
\* failed, the request has ended with the 400 insert-failure response, the
\* failed insert is its last Store call (no further insert, no update), the
\* k-1 Author records inserted before are stored and the k-th is not.
C17_InsertFailureAborts ==
  \A s \in Slots :
    LET r == req[s]
        k == Len(InsertCalls(r))
    IN (IsPublish(r) /\ k > 0 /\ InsertCalls(r)[k].outcome # "ok") =>
         /\ r.pc = "done"
         /\ r.res = Error(400, "Failed to insert author into database")
         /\ r.ops[Len(r.ops)] = InsertCalls(r)[k]
         /\ \A j \in 1..(k - 1) :
              [_id |-> r.loc.authorIds[j], name |-> AuthorNames(r)[j]] \in authors
         /\ \A a \in authors : a._id # r.loc.authorIds[k]

\* C18: a delete request that has passed the published check, and none of
\* whose calls threw, goes through its four deletes in order whatever each
\* returned: it is waiting for the next one until all four are made, and it
\* has ended exactly when the four are made; it has then answered 200 if the
\* Blob Store deletion returned true and 400 if it returned false.
C18_AllStepsAttempted ==
  \A s \in Slots :
    LET r == req[s]
        n == Len(DeleteCalls(r))
    IN (Resolved(r) /\ ~r.loc.dataset.published /\ ~CallThrew(r)) =>
         /\ n <= 4
         /\ \A k \in 1..n : DeleteCalls(r)[k].op = DeleteOrder[k]
         /\ n < 4 => r.pc = DeleteOrder[n + 1]
         /\ n = 4 =>
              /\ r.pc = "done"
              /\ r.res.status = IF DeleteCalls(r)[4].outcome = "ok" THEN 200 ELSE 400

\* A delete of d1 whose Files delete returned false has gone on through the
\* other three deletes and answered 200; the Files of d1 are still stored.
C18_Witness ==
  \E s \in Slots :
    /\ Resolved(req[s]) /\ req[s].loc.dataset._id = "d1" /\ req[s].pc = "done"
    /\ Len(DeleteCalls(req[s])) = 4
    /\ [k \in 1..4 |-> DeleteCalls(req[s])[k].outcome] = <<"false", "ok", "ok", "ok">>
    /\ req[s].res.status = 200
    /\ StoredOf("d1") = [dataset |-> {}, chunks |-> {}, files |-> FilesOf("d1"), blobs |-> BlobsOf("d1") \ {req[s].loc.estuaryId}]

\* The Dataset, Chunk and File records stored of dataset d, with their
\* contents.
RecordsOf(d) ==
  [dataset |-> [x \in StoredOf(d).dataset |-> datasets[x]],
   chunks |-> [c \in StoredOf(d).chunks |-> chunks[c]],
   files |-> [f \in StoredOf(d).files |-> files[f]]]

\* C19: a step of a delete request leaves the records of every dataset
\* other than the one that owns the first Chunk stored under the request's
\* estuaryId as they are.
C19_DeleteTouchesOneDataset ==
  [][\A s \in Slots :
       (IsDelete(req[s]) /\ req'[s] # req[s]) =>
         \A d \in DatasetIds :
           d # TargetOf(req[s]) => RecordsOf(d)' = RecordsOf(d)]_vars

\* A delete for estuaryId 3 has removed every record of d1, the dataset of
\* the chunk stored under it, and the records of d2 are all as they were.
C19_Witness ==
  \E s \in Slots :
    /\ IsDelete(req[s]) /\ req[s].q.id = "3" /\ req[s].res.status = 200
    /\ NoRecordOf("d1")
    /\ datasets = [d \in {"d2"} |-> InitDatasets[d]]
    /\ chunks = [c \in {"c3"} |-> InitChunks[c]]
    /\ files = [f \in {"f4"} |-> InitFiles[f]]

\* C20: the published flag is monotonic: no step sets the flag of a
\* published dataset back to false; a dataset that was published is, after
\* any step, either still published or no longer stored.
C20_PublishedMonotonic ==
  [][\A d \in DOMAIN datasets :
       datasets[d].published => (d \in DOMAIN datasets' => datasets'[d].published)]_vars

\* The owner of d2, which is published, has published it again with new
\* metadata: the update has written a published dataset, which still is.
C20_Witness ==
  \E s \in Slots :
    /\ IsPublish(req[s]) /\ req[s].q.id = "d2" /\ req[s].res.status = 200
    /\ InitDatasets["d2"].published
    /\ datasets["d2"].published /\ datasets["d2"].title = req[s].q.title

====
